---- MODULE Spec2Model ----
(***************************************************************************)
(* Request dispatch and environment resolution of api-index.js: the        *)
(* Express application built at module load (cors origin list, static      *)
(* mounts), and the path of one request through the middleware stack:      *)
(*   cors -> express.json -> express.urlencoded -> express.static mounts   *)
(*   -> app.get routes -> error middleware -> app.get('*') -> Express's    *)
(*   default final handler.                                                *)
(* helmet and compression only add response headers and never end or fail  *)
(* a request; they are not stages of the model.                            *)
(* A path is the sequence of its segments: <<>> is "/", <<"api","health">> *)
(* is "/api/health".                                                       *)
(***************************************************************************)
EXTENDS Integers, Sequences, FiniteSets, TLC

VARIABLES env, pc, corsOrigin, mounts, fs, req, stage, err, res, ran

vars == <<env, pc, corsOrigin, mounts, fs, req, stage, err, res, ran>>

(* ------------------------------------------------------------------ *)
(* Bounds and program constants                                        *)
(* ------------------------------------------------------------------ *)

\* Body lengths go up to BodyLimit + MaxOver bytes.
MaxOver == 1

\* bytes('10mb') = 10 * 1024 * 1024
BodyLimit == 10485760

(* ------------------------------------------------------------------ *)
(* process.env                                                         *)
(* ------------------------------------------------------------------ *)

Unset == "<unset>"

VercelValues == {Unset, "", "1"}
NodeEnvValues == {Unset, "production", "development"}

Envs == [VERCEL : VercelValues, NODE_ENV : NodeEnvValues]

\* JavaScript truthiness of an environment value (undefined or '' is falsy).
Truthy(v) == v # Unset /\ v # ""

(* ------------------------------------------------------------------ *)
(* Module load: cors origin option and static mounts                   *)
(* ------------------------------------------------------------------ *)

VercelOrigins == <<"https://vvc-soccer-2025.vercel.app",
                   "https://brasschaat-vvc-club.vercel.app",
                   "https://soccer-vvc-pro.vercel.app">>
ProdOrigins == <<"https://soccerclubpro.vercel.app">>
DevOrigins == <<"http://localhost:5000", "http://127.0.0.1:5000", "http://0.0.0.0:5000">>

CorsOriginOption(e) ==
    IF Truthy(e.VERCEL) THEN VercelOrigins
    ELSE IF e.NODE_ENV = "production" THEN ProdOrigins
    ELSE DevOrigins

Mount(prefix, dir) == [prefix |-> prefix, dir |-> dir]

ModeMounts(e) ==
    IF Truthy(e.VERCEL) THEN <<>>
    ELSE IF e.NODE_ENV = "production" THEN << Mount(<<>>, "dist/public") >>
    ELSE << Mount(<<>>, "client"), Mount(<<"node_modules">>, "node_modules") >>

UploadsMount == Mount(<<"uploads">>, "uploads")

StaticMounts(e) == ModeMounts(e) \o << UploadsMount >>

(* ------------------------------------------------------------------ *)
(* Files on disk                                                       *)
(* ------------------------------------------------------------------ *)

File(dir, rel) == [dir |-> dir, rel |-> rel]

SpaEntry == File("dist", <<"index.html">>)

Files == { File("client", <<"index.html">>),
           File("dist/public", <<"index.html">>),
           File("client", <<"api", "data.json">>),
           SpaEntry }

(* ------------------------------------------------------------------ *)
(* Requests and responses                                              *)
(* ------------------------------------------------------------------ *)

NoOrigin == "<none>"

Origins == { NoOrigin, VercelOrigins[1], ProdOrigins[1], DevOrigins[1] }

Paths == { <<>>, <<"api", "health">>, <<"api", "status">>, <<"api", "vvc">>,
           <<"api", "nope">>, <<"api", "data.json">>, <<"foo">> }

Queries == { "", "?x=1" }

Bodies == { [ctype |-> "none", len |-> 0] } \cup
          [ctype : {"json", "urlencoded"}, len : BodyLimit .. (BodyLimit + MaxOver)]

Requests == [method : {"GET", "OPTIONS"}, path : Paths, query : Queries,
             origin : Origins, body : Bodies]

NoReq == [method |-> "<none>", path |-> <<>>, query |-> "", origin |-> NoOrigin,
          body |-> [ctype |-> "none", len |-> 0]]
NoErr == [message |-> "<none>", status |-> 0]

\* A URL: host ("" for a relative one), path and query string.
Url(host, path, query) == [host |-> host, path |-> path, query |-> query]
NoUrl == Url("<none>", <<>>, "")
NoFile == [dir |-> "<none>", rel |-> <<>>]

\* A response under construction: nothing sent yet (status 0).
EmptyRes == [status |-> 0, kind |-> "<none>", doc |-> "<none>",
             acao |-> NoOrigin, acac |-> FALSE,
             message |-> "", location |-> NoUrl, named |-> NoUrl,
             routes |-> <<>>, file |-> NoFile]

InSeq(x, s) == \E i \in 1 .. Len(s) : s[i] = x

Init ==
    /\ env \in Envs
    /\ pc = "load"
    /\ corsOrigin = <<>>
    /\ mounts = <<>>
    /\ fs \in SUBSET Files
    /\ req = NoReq
    /\ stage = "idle"
    /\ err = NoErr
    /\ res = EmptyRes
    /\ ran = <<>>

\* require('./api-index'): the top-level statements run once.
Load ==
    /\ pc = "load"
    /\ pc' = "listening"
    /\ corsOrigin' = CorsOriginOption(env)
    /\ mounts' = StaticMounts(env)
    /\ UNCHANGED <<env, fs, req, stage, err, res, ran>>

\* process.env is a mutable global of the process: any code of the hosting
\* process may assign a variable after the application was built.
EnvChange ==
    /\ pc = "listening"
    /\ \E e \in Envs : e # env /\ env' = e
    /\ UNCHANGED <<pc, corsOrigin, mounts, fs, req, stage, err, res, ran>>

\* A request enters the stack.
Arrive ==
    /\ pc = "listening"
    /\ stage = "idle"
    /\ \E r \in Requests : req' = r
    /\ stage' = "cors"
    /\ err' = NoErr
    /\ res' = EmptyRes
    /\ ran' = <<>>
    /\ UNCHANGED <<env, pc, corsOrigin, mounts, fs>>

(* ------------------------------------------------------------------ *)
(* cors({origin: [...], credentials: true})                            *)
(* ------------------------------------------------------------------ *)

\* isOriginAllowed(requestOrigin, array): some entry equals the Origin header.
IsOriginAllowed(origin, allowed) == origin # NoOrigin /\ InSeq(origin, allowed)

\* Access-Control-Allow-Origin: the request's origin reflected when allowed,
\* otherwise the header is not set.
AllowOriginHeader(origin, allowed) ==
    IF IsOriginAllowed(origin, allowed) THEN origin ELSE NoOrigin

\* Variant: a request from an origin outside the list is ended by the
\* middleware.
CorsRejectsUnlisted(r, allowed) ==
    r.method = "OPTIONS" \/ (r.origin # NoOrigin /\ ~IsOriginAllowed(r.origin, allowed))

\* The middleware sets the headers and calls next(); only a preflight
\* (OPTIONS) is answered by it, 204 with an empty body.  It never fails a
\* request whose origin is not listed.
CorsEndsRequest(r, allowed) == r.method = "OPTIONS"

Cors ==
    /\ stage = "cors"
    /\ ran' = Append(ran, "cors")
    /\ LET hdr == [res EXCEPT !.acao = AllowOriginHeader(req.origin, corsOrigin),
                              !.acac = TRUE]
       IN IF CorsEndsRequest(req, corsOrigin)
          THEN /\ res' = [hdr EXCEPT !.status = 204, !.kind = "empty"]
               /\ stage' = "done"
          ELSE /\ res' = hdr
               /\ stage' = "json"
    /\ UNCHANGED <<env, pc, corsOrigin, mounts, fs, req, err>>

(* ------------------------------------------------------------------ *)
(* express.json / express.urlencoded, limit '10mb'                     *)
(* ------------------------------------------------------------------ *)

\* raw-body: a declared length above the limit is refused.
TooLarge(len) == len > BodyLimit

EntityTooLarge == [message |-> "request entity too large", status |-> 413]

\* One body parser: a body of its content type above the limit is passed to
\* next(err); the next error-handling middleware of the stack is the one
\* registered before app.get('*').
BodyParser(ctype, self, after) ==
    /\ stage = self
    /\ ran' = Append(ran, self)
    /\ IF req.body.ctype = ctype /\ TooLarge(req.body.len)
       THEN /\ err' = EntityTooLarge
            /\ stage' = "errmw"
       ELSE /\ err' = err
            /\ stage' = after
    /\ UNCHANGED <<env, pc, corsOrigin, mounts, fs, req, res>>

Json == BodyParser("json", "json", "urlencoded")

Urlencoded == BodyParser("urlencoded", "urlencoded", "static")

(* ------------------------------------------------------------------ *)
(* express.static mounts                                               *)
(* ------------------------------------------------------------------ *)

HasPrefix(p, pre) == Len(p) >= Len(pre) /\ SubSeq(p, 1, Len(pre)) = pre

StripPrefix(p, pre) == SubSeq(p, Len(pre) + 1, Len(p))

\* serve-static: the root of a mount is answered with its index.html.
IndexOf(rel) == IF rel = <<>> THEN <<"index.html">> ELSE rel

MountTarget(m, p) == File(m.dir, IndexOf(StripPrefix(p, m.prefix)))

MountServes(m, p) == HasPrefix(p, m.prefix) /\ MountTarget(m, p) \in fs

\* The mounts are tried in registration order; a miss falls through.
StaticHits(p) == { i \in 1 .. Len(mounts) : MountServes(mounts[i], p) }

FirstHit(p) == CHOOSE i \in StaticHits(p) : \A j \in StaticHits(p) : i <= j

Static ==
    /\ stage = "static"
    /\ ran' = Append(ran, "static")
    /\ IF req.method = "GET" /\ StaticHits(req.path) # {}
       THEN /\ res' = [res EXCEPT !.status = 200, !.kind = "file",
                          !.file = MountTarget(mounts[FirstHit(req.path)], req.path)]
            /\ stage' = "done"
       ELSE /\ res' = res
            /\ stage' = "route"
    /\ UNCHANGED <<env, pc, corsOrigin, mounts, fs, req, err>>

(* ------------------------------------------------------------------ *)
(* app.get routes                                                      *)
(* ------------------------------------------------------------------ *)

Route(path, doc) == [path |-> path, doc |-> doc]

\* The routes registered with app.get ahead of the error middleware.
RouteTable == << Route(<<>>, "RootInfo"),
                 Route(<<"api", "health">>, "ApiHealth"),
                 Route(<<"api", "status">>, "ApiStatus"),
                 Route(<<"api", "vvc">>, "ApiVvc") >>

RouteMatches(r) == { i \in 1 .. Len(RouteTable) :
                       r.method = "GET" /\ RouteTable[i].path = r.path }

HandlerError == [message |-> "boom", status |-> 0]

\* A route handler: res.json(document), or an exception, which Express
\* passes to the next error-handling middleware.
JsonRoute(i) ==
    /\ stage = "route"
    /\ i \in RouteMatches(req)
    /\ ran' = Append(ran, RouteTable[i].doc)
    /\ \E raise \in BOOLEAN :
         IF raise
         THEN /\ err' = HandlerError
              /\ res' = res
              /\ stage' = "errmw"
         ELSE /\ err' = err
              /\ res' = [res EXCEPT !.status = 200, !.kind = "json",
                                    !.doc = RouteTable[i].doc]
              /\ stage' = "done"
    /\ UNCHANGED <<env, pc, corsOrigin, mounts, fs, req>>

RootInfo == JsonRoute(1)

ApiHealth == JsonRoute(2)

ApiStatus == JsonRoute(3)

ApiVvc == JsonRoute(4)

\* No route matches: the error middleware is skipped (there is no error)
\* and the request reaches app.get('*').
RouteMiss ==
    /\ stage = "route"
    /\ RouteMatches(req) = {}
    /\ stage' = "star"
    /\ UNCHANGED <<env, pc, corsOrigin, mounts, fs, req, err, res, ran>>

(* ------------------------------------------------------------------ *)
(* Error middleware                                                    *)
(* ------------------------------------------------------------------ *)

GenericMessage == "Something went wrong"

ErrorMessage(e, error) ==
    IF e.NODE_ENV = "development" THEN error.message ELSE GenericMessage

ErrorMw ==
    /\ stage = "errmw"
    /\ ran' = Append(ran, "errmw")
    /\ res' = [res EXCEPT !.status = 500, !.kind = "json", !.doc = "Internal Server Error",
                          !.message = ErrorMessage(env, err)]
    /\ stage' = "done"
    /\ UNCHANGED <<env, pc, corsOrigin, mounts, fs, req, err>>

(* ------------------------------------------------------------------ *)
(* app.get('*')                                                        *)
(* ------------------------------------------------------------------ *)

\* req.path.startsWith('/api/')
StartsWithApi(p) == Len(p) >= 2 /\ p[1] = "api"

ApiEntry(path, label) == [path |-> path, label |-> label]

\* Variant: the list was not extended when /api/vvc was registered.
AvailableRoutesStale == << ApiEntry(<<"api", "health">>, "Health check"),
                           ApiEntry(<<"api", "status">>, "Deployment status") >>

\* available_routes: each entry is '<route> - <label>'.
AvailableRoutes == << ApiEntry(<<"api", "health">>, "Health check"),
                      ApiEntry(<<"api", "status">>, "Deployment status"),
                      ApiEntry(<<"api", "vvc">>, "VVC Brasschaat info") >>

\* Variant: only the production indicator selects the bundled entry.
ServesBundledEntryProductionOnly(e) == e.NODE_ENV = "production"

\* process.env.VERCEL || process.env.NODE_ENV === 'production'
ServesBundledEntry(e) == Truthy(e.VERCEL) \/ e.NODE_ENV = "production"

DevServer == "http://localhost:5173"

\* `http://localhost:5173${req.path}`
RedirectTarget(r) == Url(DevServer, r.path, "")

\* res.sendFile throws synchronously only for a path that is missing, not a
\* string, or relative without a root; path.join(__dirname, ...) is absolute.
SendFileThrows == FALSE

CatchAll ==
    /\ stage = "star"
    /\ ran' = Append(ran, "CatchAll")
    /\ \E raise \in BOOLEAN :
         IF raise
         THEN \* registered after the error middleware: only the default
              \* final handler is left in the stack
              /\ err' = HandlerError
              /\ res' = res
              /\ stage' = "final"
         ELSE /\ err' = err
              /\ IF StartsWithApi(req.path)
                 THEN /\ res' = [res EXCEPT !.status = 404, !.kind = "json",
                                    !.doc = "API Not Found",
                                    !.named = Url("", req.path, req.query),
                                    !.routes = AvailableRoutes]
                      /\ stage' = "done"
                 ELSE IF ServesBundledEntry(env)
                 THEN IF SendFileThrows
                      THEN /\ res' = [res EXCEPT !.status = 200, !.kind = "html",
                                                 !.doc = "inline fallback"]
                           /\ stage' = "done"
                      ELSE /\ res' = res
                           /\ stage' = "sendfile"
                 ELSE /\ res' = [res EXCEPT !.status = 302, !.kind = "redirect",
                                            !.location = RedirectTarget(req)]
                      /\ stage' = "done"
    /\ UNCHANGED <<env, pc, corsOrigin, mounts, fs, req>>

NotFoundError == [message |-> "ENOENT", status |-> 404]

\* The asynchronous part of res.sendFile: the file is streamed, or the
\* failure is passed to next(err) after the handler has returned.
SendFile ==
    /\ stage = "sendfile"
    /\ ran' = Append(ran, "sendfile")
    /\ IF SpaEntry \in fs
       THEN /\ res' = [res EXCEPT !.status = 200, !.kind = "html", !.doc = "entry",
                                  !.file = SpaEntry]
            /\ err' = err
            /\ stage' = "done"
       ELSE /\ res' = res
            /\ err' = NotFoundError
            /\ stage' = "final"
    /\ UNCHANGED <<env, pc, corsOrigin, mounts, fs, req>>

\* Express's default final handler: the error's status if it is a 4xx/5xx,
\* else 500, with an HTML error page.
FinalStatus(error) ==
    IF error.status >= 400 /\ error.status <= 599 THEN error.status ELSE 500

FinalHandler ==
    /\ stage = "final"
    /\ ran' = Append(ran, "final")
    /\ res' = [res EXCEPT !.status = FinalStatus(err), !.kind = "html",
                          !.doc = "default error page"]
    /\ stage' = "done"
    /\ UNCHANGED <<env, pc, corsOrigin, mounts, fs, req, err>>

\* The response has been written: the request and response objects are
\* dropped.
Finish ==
    /\ stage = "done"
    /\ stage' = "idle"
    /\ req' = NoReq
    /\ err' = NoErr
    /\ res' = EmptyRes
    /\ ran' = <<>>
    /\ UNCHANGED <<env, pc, corsOrigin, mounts, fs>>

Next ==
    \/ Load
    \/ EnvChange
    \/ Arrive
    \/ Cors
    \/ Json
    \/ Urlencoded
    \/ Static
    \/ RootInfo
    \/ ApiHealth
    \/ ApiStatus
    \/ ApiVvc
    \/ RouteMiss
    \/ ErrorMw
    \/ CatchAll
    \/ SendFile
    \/ FinalHandler
    \/ Finish

Spec == Init /\ [][Next]_vars

(* ================================================================== *)
(* Properties                                                          *)
(* ================================================================== *)

Handlers == {"RootInfo", "ApiHealth", "ApiStatus", "ApiVvc", "CatchAll"}

HandlerRan == \E h \in Handlers : InSeq(h, ran)

Answered == stage = "done"

Oversized(r) == r.body.ctype \in {"json", "urlencoded"} /\ r.body.len > BodyLimit

Elems(s) == { s[i] : i \in 1 .. Len(s) }

\* The documented resolution and table of derived values.
Modes == {"Serverless", "ProductionBuilt", "Development"}

\* An indicator is present when it is set to a non-empty value.
Present(v) == v \notin {Unset, ""}

DocMode(e) ==
    CASE Present(e.VERCEL) -> "Serverless"
      [] ~Present(e.VERCEL) /\ e.NODE_ENV = "production" -> "ProductionBuilt"
      [] OTHER -> "Development"

DocRootDirs(m) ==
    CASE m = "Serverless" -> {}
      [] m = "ProductionBuilt" -> {"dist/public"}
      [] m = "Development" -> {"client", "node_modules"}

DocFallback(m) == IF m = "Development" THEN "redirect" ELSE "bundled entry"

DocOrigins(m) ==
    CASE m = "Serverless" -> Elems(VercelOrigins)
      [] m = "ProductionBuilt" -> Elems(ProdOrigins)
      [] m = "Development" -> Elems(DevOrigins)

\* The mode the application was built for: the one whose origin set and
\* asset roots were installed at load.
BootMode == CHOOSE m \in Modes : DocOrigins(m) = Elems(corsOrigin)

LoadStep == pc = "load" /\ pc' = "listening"

\* app.get('*') answered a non-API request without raising.
FallbackStep == stage = "star" /\ stage' \in {"sendfile", "done"}
                /\ ~StartsWithApi(req.path)

\* C1: for every combination of VERCEL and NODE_ENV the origin set and the
\* mode asset roots installed at load are those the table gives for the mode
\* resolved first-match-wins from the signals, and the fallback strategy
\* app.get('*') takes is the one the table gives for the mode the signals
\* resolve to: bundled entry for Serverless and ProductionBuilt, redirect
\* for Development (also with no signal set).
C1_ModeTable ==
    [][ /\ LoadStep =>
             /\ Elems(corsOrigin') = DocOrigins(DocMode(env))
             /\ { mounts'[i].dir : i \in 1 .. Len(mounts') } \ {UploadsMount.dir}
                  = DocRootDirs(DocMode(env))
        /\ FallbackStep =>
             IF DocFallback(DocMode(env)) = "redirect"
             THEN stage' = "done" /\ res'.kind = "redirect"
             ELSE stage' = "sendfile" ]_vars

\* A Serverless process (no mode asset root) took the bundled-entry branch
\* with only VERCEL set.
C1_Witness ==
    /\ stage = "sendfile"
    /\ env = [VERCEL |-> "1", NODE_ENV |-> Unset]
    /\ mounts = << UploadsMount >>
    /\ corsOrigin = VercelOrigins

\* C2: the mode is fixed at load: every answered request had its fallback
\* strategy and its error-detail gating chosen by the mode that chose the
\* origin set and asset roots at load, whatever process.env holds later.
C2_ModeFixedAtLoad ==
    Answered =>
       /\ res.kind = "redirect" => BootMode = "Development"
       /\ InSeq("sendfile", ran) => BootMode # "Development"
       /\ InSeq("errmw", ran) =>
            ((res.message = err.message) <=> BootMode = "Development")

\* C3: when a route handler raises, the 500 carries the raw error message
\* if and only if the signals resolve to Development (VERCEL absent and
\* NODE_ENV not 'production'), for every combination of signals.
C3_RawMessageIffDevelopment ==
    [][ (stage = "errmw" /\ stage' = "done" /\ err = HandlerError) =>
           /\ res'.status = 500
           /\ (res'.message = err.message) <=> DocMode(env) = "Development" ]_vars

\* C4: a GET whose JSON or URL-encoded body exceeds the 10 MB ceiling is
\* answered with a 4xx status and no route handler runs for it.
C4_OversizeRejected4xx ==
    (Answered /\ req.method = "GET" /\ Oversized(req)) =>
       /\ res.status >= 400 /\ res.status <= 499
       /\ ~HandlerRan

C6_FallbackByMode ==
    (Answered /\ req.method = "GET" /\ InSeq("CatchAll", ran)
       /\ ~StartsWithApi(req.path) /\ err # HandlerError
       /\ DocMode(env) = BootMode) =>
       IF BootMode = "Development"
       THEN /\ res.kind = "redirect"
            /\ res.location = Url(DevServer, req.path, req.query)
       ELSE /\ res.status = 200
            /\ res.kind = "html"

\* C7: when the bundled entry file is missing, the request that asked for
\* it is answered with the inline fallback markup, never with an error
\* status, and the read is attempted once.
C7_MissingEntryFallsBack ==
    (Answered /\ InSeq("sendfile", ran) /\ SpaEntry \notin fs) =>
       /\ res.status = 200
       /\ res.doc = "inline fallback"
       /\ Cardinality({ i \in 1 .. Len(ran) : ran[i] = "sendfile" }) = 1

\* C8: every failure raised at any stage is answered by the error
\* middleware with the uniform 500 document.
C8_ErrorBoundaryCatchesAll ==
    (Answered /\ err # NoErr) =>
       /\ InSeq("errmw", ran)
       /\ res.status = 500
       /\ res.doc = "Internal Server Error"

RegisteredApiRoutes ==
    { RouteTable[i].path : i \in { j \in 1 .. Len(RouteTable) :
                                     StartsWithApi(RouteTable[j].path) } }

ApiMissDocument(r) ==
    /\ res.status = 404
    /\ res.doc = "API Not Found"
    /\ res.named = Url("", r.path, r.query)
    /\ { res.routes[i].path : i \in 1 .. Len(res.routes) } = RegisteredApiRoutes
    /\ Len(res.routes) = Cardinality(RegisteredApiRoutes)

\* C9 as claimed: in every mode, every GET whose path begins with /api/
\* and is not a registered route is answered 404 with the route named and
\* available_routes listing exactly the registered API routes (stated here
\* for the requests the body parsers accept and no stage fails).
C9_EveryApiMiss404 ==
    (Answered /\ req.method = "GET" /\ StartsWithApi(req.path)
       /\ req.path \notin RegisteredApiRoutes
       /\ ~Oversized(req) /\ err = NoErr) => ApiMissDocument(req)

\* C9 as amended: the same, for the requests that reach app.get('*'): no
\* static mount has a file for the path (and, as above, the body parsers
\* accepted the request and no stage failed).
C9_ApiMiss404 ==
    (Answered /\ req.method = "GET" /\ StartsWithApi(req.path)
       /\ req.path \notin RegisteredApiRoutes
       /\ ~Oversized(req) /\ StaticHits(req.path) = {} /\ err = NoErr) =>
       /\ InSeq("CatchAll", ran)
       /\ ApiMissDocument(req)

\* GET /api/nope?x=1 was answered 404 by app.get('*') in a process built
\* for ProductionBuilt.
C9_Witness ==
    /\ Answered
    /\ req.path = <<"api", "nope">>
    /\ req.query = "?x=1"
    /\ ran[Len(ran)] = "CatchAll"
    /\ res.status = 404
    /\ corsOrigin = ProdOrigins

\* C10: in every mode and whatever files exist, a GET / that the body
\* parsers accept is answered 200 by the RootInfo handler with the service
\* identity document (handler not raising).
C10_RootAnsweredByRootInfo ==
    (Answered /\ req.method = "GET" /\ req.path = <<>>
       /\ ~Oversized(req) /\ err = NoErr) =>
       /\ InSeq("RootInfo", ran)
       /\ res.status = 200
       /\ res.kind = "json"
       /\ res.doc = "RootInfo"
====
